---- MODULE Spec2Model ----
(***************************************************************************)
(* Model of the TypelessData crate: a type-erased byte region with the     *)
(* validity-checked read / write / take / replace protocol.                *)
(*                                                                         *)
(* A region is a sequence of bytes; the byte at offset o is data[o + 1].   *)
(* A typed value T is the sequence of its size_of::<T>() bytes.            *)
(* Three backends own a region (DataSlice, DataArray, DataBoxed) and an    *)
(* operation is reached in one of three forms: the inherent const methods  *)
(* of DataSlice (DataArray forwards to them, DataBoxed derefs to them),    *)
(* the RawDataStructure trait defaults, and the free functions of          *)
(* const_ops over a byte slice.                                            *)
(***************************************************************************)
EXTENDS Integers, Sequences, FiniteSets

\* other: a second region owned by the caller (the result of a clone)
VARIABLES backend, data, last, pc, other

vars == <<backend, data, last, pc, other>>

(***************************************************************************)
(* Bounds of the model.                                                    *)
(***************************************************************************)
\* largest region capacity explored
MaxCap == 5
\* largest size_of::<T>() explored
MaxTypeSize == 2
\* usize::MAX of the modelled machine (kept small so that idx + size overflows)
UsizeMax == 15

\* byte values explored: 0x00 and 0xFF
Byte == {0, 255}

Backends == {"slice", "array", "boxed"}

Usize == 0 .. UsizeMax
TypeSizes == 0 .. MaxTypeSize

\* all values of a type of size s, as byte sequences
Values(s) == [1 .. s -> Byte]
AllValues == UNION {Values(s) : s \in TypeSizes}

(***************************************************************************)
(* Integer and pointer arithmetic.                                         *)
(***************************************************************************)
None == -1
NoPtr == -1
NoValue == <<-1>>

\* usize::checked_add
checked_add(a, b) == IF a + b > UsizeMax THEN None ELSE a + b

\* byte offset of `base.cast::<T>().add(count)` for size_of::<T>() = elem:
\* pointer add scales count by the element size (wrapping at the usize width)
cast_add(count, elem) == (count * elem) % (UsizeMax + 1)

\* offsets of the span of `size` bytes that starts at byte offset `off`
span(off, size) == off .. (off + size - 1)

IdxError_swapped(idx, data_size, type_size) ==
    [idx |-> idx, data_size |-> type_size, type_size |-> data_size]

IdxError(idx, data_size, type_size) ==
    [idx |-> idx, data_size |-> data_size, type_size |-> type_size]
NoError == [idx |-> -1, data_size |-> -1, type_size |-> -1]

(***************************************************************************)
(* Validity checker.  A check yields [ok, err].                            *)
(***************************************************************************)
Valid == [ok |-> TRUE, err |-> NoError]
Invalid(e) == [ok |-> FALSE, err |-> e]

\* slip: the span may end exactly at the capacity (<= instead of <)
DataSlice_read_validity_inclusive(cap, idx, size) ==
    LET sum == checked_add(idx, size)
    IN  IF (IF sum # None THEN sum <= cap ELSE FALSE)
        THEN [ok |-> TRUE, err |-> NoError]
        ELSE [ok |-> FALSE, err |-> IdxError(idx, cap, size)]

\* <DataSlice as RawDataStructure>::read_validity
DataSlice_read_validity(cap, idx, size) ==
    LET sum == checked_add(idx, size)
    IN  IF (IF sum # None THEN sum < cap ELSE FALSE)
        THEN Valid
        ELSE Invalid(IdxError(idx, cap, size))

\* <DataArray<SIZE> as RawDataStructure>::read_validity
DataArray_read_validity(cap, idx, size) ==
    LET sum == checked_add(idx, size)
    IN  IF (IF sum # None THEN sum < cap ELSE FALSE)
        THEN Valid
        ELSE Invalid(IdxError(idx, cap, size))

\* <D: DerefDataSlice as RawDataStructure>::read_validity (DataBoxed, Box<DataSlice>)
Deref_read_validity(cap, idx, size) == DataSlice_read_validity(cap, idx, size)

\* read_validity of the backend b
read_validity(b, cap, idx, size) ==
    CASE b = "slice" -> DataSlice_read_validity(cap, idx, size)
      [] b = "array" -> DataArray_read_validity(cap, idx, size)
      [] b = "boxed" -> Deref_read_validity(cap, idx, size)

\* RawDataStructure::write_validity (default, overridden by no backend)
write_validity(b, cap, idx, size) == read_validity(b, cap, idx, size)

\* RawDataStructure::full_validity: the default is read_validity? then
\* write_validity; DataSlice and DataArray override it with read_validity
full_validity(b, cap, idx, size) ==
    IF b \in {"slice", "array"}
    THEN read_validity(b, cap, idx, size)
    ELSE LET r == read_validity(b, cap, idx, size)
         IN  IF ~r.ok THEN r ELSE write_validity(b, cap, idx, size)

\* const_ops::validity
const_ops_validity(len, idx, size) ==
    LET sum == checked_add(idx, size)
    IN  IF (IF sum # None THEN sum < len ELSE FALSE)
        THEN Valid
        ELSE Invalid(IdxError(idx, len, size))

\* the bounds test inlined in every checked inherent method of DataSlice:
\* match idx.checked_add(size) { Some(size) => size >= self.size(), None => true }
out_of_bounds(cap, idx, size) ==
    LET sum == checked_add(idx, size)
    IN  IF sum # None THEN sum >= cap ELSE TRUE

(***************************************************************************)
(* Memory access.  Offsets outside the region are outside the allocation:  *)
(* an access there is undefined behaviour; the model takes the outcomes of *)
(* a flat memory, where a read finds arbitrary bytes and a write lands     *)
(* outside the region.                                                     *)
(***************************************************************************)
InRegion(d, o) == 0 <= o /\ o < Len(d)

\* slip: the destination offset is scaled by the value's size, as by
\* `cast::<T>().add(idx)`
copy_bytes_scaled(d, idx, value) ==
    [i \in 1 .. Len(d) |->
        IF idx * Len(value) <= i - 1 /\ i - 1 < idx * Len(value) + Len(value)
        THEN value[i - idx * Len(value)]
        ELSE d[i]]

\* the loop `self.inner[at + idx] = *ptr.add(at)` for at in 0 .. size_of_val(value)
copy_bytes(d, idx, value) ==
    [i \in 1 .. Len(d) |->
        IF idx <= i - 1 /\ i - 1 < idx + Len(value) THEN value[i - idx] ELSE d[i]]

\* the loop `self.inner[at + idx] = byte` for at in 0 .. size
fill_bytes(d, idx, size, byte) ==
    [i \in 1 .. Len(d) |-> IF idx <= i - 1 /\ i - 1 < idx + size THEN byte ELSE d[i]]

\* the values a read of `size` bytes at byte offset `off` can produce
read_at(d, off, size) ==
    {v \in Values(size) : \A k \in 1 .. size : InRegion(d, off + k - 1) => v[k] = d[off + k]}

\* the region after a raw write of `value` at byte offset `off`
write_at(d, off, value) ==
    [i \in 1 .. Len(d) |->
        IF off <= i - 1 /\ i - 1 < off + Len(value) THEN value[i - off] ELSE d[i]]

(***************************************************************************)
(* Outcome of a call: the region afterwards, Ok or Err, the IdxError, the  *)
(* value returned, the value handed back with an error, the byte offset of *)
(* a returned pointer, the offsets the call read or wrote, and whether it  *)
(* panicked.                                                               *)
(***************************************************************************)
Outcome(d, ok, err, ret, back, ptr, touched) ==
    [data |-> d, ok |-> ok, panic |-> FALSE, err |-> err, ret |-> ret,
     back |-> back, ptr |-> ptr, touched |-> touched]

Success(d, ret, ptr, touched) == Outcome(d, TRUE, NoError, ret, NoValue, ptr, touched)
Failure(d, err, back) == Outcome(d, FALSE, err, NoValue, back, NoPtr, {})
Panic(d) ==
    [data |-> d, ok |-> FALSE, panic |-> TRUE, err |-> NoError, ret |-> NoValue,
     back |-> NoValue, ptr |-> NoPtr, touched |-> {}]

\* a null `*const ManuallyDrop<T>` handed to write_unsized
Null == <<-2>>

(***************************************************************************)
(* Region Core: the inherent methods of DataSlice.  Every handler yields   *)
(* the set of outcomes the call can have (one, unless it runs into         *)
(* undefined behaviour).                                                   *)
(***************************************************************************)
\* DataSlice::write
DataSlice_write(d, idx, value) ==
    LET type_size == Len(value)
    IN  IF out_of_bounds(Len(d), idx, type_size)
        THEN {Failure(d, IdxError(idx, Len(d), type_size), value)}
        ELSE {Success(copy_bytes(d, idx, value), NoValue, NoPtr, span(idx, type_size))}

\* DataSlice::write_unchecked (indexing panics at the first offset past the end)
DataSlice_write_unchecked(d, idx, value) ==
    IF idx + Len(value) > Len(d)
    THEN {Panic(copy_bytes(d, idx, value))}
    ELSE {Success(copy_bytes(d, idx, value), NoValue, NoPtr, span(idx, Len(value)))}

\* slip: the fill runs, truncated at the end of the region, before the
\* bounds test rejects the call
DataSlice_write_zeroes_truncating(d, idx, size) ==
    IF out_of_bounds(Len(d), idx, size)
    THEN {Failure(fill_bytes(d, idx, size, 0), IdxError(idx, Len(d), size), NoValue)}
    ELSE {Success(fill_bytes(d, idx, size, 0), NoValue, NoPtr, span(idx, size))}

\* DataSlice::write_zeroes
DataSlice_write_zeroes(d, idx, size) ==
    IF out_of_bounds(Len(d), idx, size)
    THEN {Failure(d, IdxError(idx, Len(d), size), NoValue)}
    ELSE {Success(fill_bytes(d, idx, size, 0), NoValue, NoPtr, span(idx, size))}

\* DataSlice::write_zeroes_unchecked
DataSlice_write_zeroes_unchecked(d, idx, size) ==
    IF idx + size > Len(d)
    THEN {Panic(fill_bytes(d, idx, size, 0))}
    ELSE {Success(fill_bytes(d, idx, size, 0), NoValue, NoPtr, span(idx, size))}

\* DataSlice::write_ones
DataSlice_write_ones(d, idx, size) ==
    IF out_of_bounds(Len(d), idx, size)
    THEN {Failure(d, IdxError(idx, Len(d), size), NoValue)}
    ELSE {Success(fill_bytes(d, idx, size, 255), NoValue, NoPtr, span(idx, size))}

\* DataSlice::write_ones_unchecked
DataSlice_write_ones_unchecked(d, idx, size) ==
    IF idx + size > Len(d)
    THEN {Panic(fill_bytes(d, idx, size, 255))}
    ELSE {Success(fill_bytes(d, idx, size, 255), NoValue, NoPtr, span(idx, size))}

DataSlice_write_unsized_bounds_first(d, idx, value) ==
    IF value = Null
    THEN IF idx >= Len(d)
         THEN {Failure(d, IdxError(idx, Len(d), 0), NoValue)}
         ELSE {Panic(d)}
    ELSE LET type_size == Len(value)
         IN  IF out_of_bounds(Len(d), idx, type_size)
             THEN {Failure(d, IdxError(idx, Len(d), type_size), NoValue)}
             ELSE {Success(copy_bytes(d, idx, value), NoValue, NoPtr, span(idx, type_size))}

\* DataSlice::write_unsized: the null test comes first, then the bounds test
DataSlice_write_unsized(d, idx, value) ==
    IF value = Null
    THEN {Panic(d)}
    ELSE LET type_size == Len(value)
         IN  IF out_of_bounds(Len(d), idx, type_size)
             THEN {Failure(d, IdxError(idx, Len(d), type_size), NoValue)}
             ELSE {Success(copy_bytes(d, idx, value), NoValue, NoPtr, span(idx, type_size))}

\* DataSlice::write_unsized_unchecked
DataSlice_write_unsized_unchecked(d, idx, value) ==
    IF value = Null
    THEN {Panic(d)}
    ELSE IF Len(value) > 0 /\ idx + Len(value) > Len(d)
         THEN {Panic(copy_bytes(d, idx, value))}
         ELSE {Success(copy_bytes(d, idx, value), NoValue, NoPtr, span(idx, Len(value)))}

\* DataSlice::read_unchecked: (&self.inner as *const [u8]).cast::<T>().add(idx)
DataSlice_read_unchecked(d, idx, size) ==
    {Success(d, NoValue, cast_add(idx, size), {})}

\* DataSlice::read
DataSlice_read(d, idx, size) ==
    IF out_of_bounds(Len(d), idx, size)
    THEN {Failure(d, IdxError(idx, Len(d), size), NoValue)}
    ELSE {Success(d, NoValue, cast_add(idx, size), {})}

\* DataSlice::read_mut_unchecked
DataSlice_read_mut_unchecked(d, idx, size) ==
    {Success(d, NoValue, cast_add(idx, size), {})}

\* DataSlice::read_mut
DataSlice_read_mut(d, idx, size) ==
    IF out_of_bounds(Len(d), idx, size)
    THEN {Failure(d, IdxError(idx, Len(d), size), NoValue)}
    ELSE {Success(d, NoValue, cast_add(idx, size), {})}

\* DataSlice::take_unchecked: copy_from_nonoverlapping(cast::<u8>().add(idx), size)
DataSlice_take_unchecked(d, idx, size) ==
    LET off == cast_add(idx, 1)
    IN  {Success(d, v, NoPtr, span(off, size)) : v \in read_at(d, off, size)}

\* DataSlice::take
DataSlice_take(d, idx, size) ==
    IF out_of_bounds(Len(d), idx, size)
    THEN {Failure(d, IdxError(idx, Len(d), size), NoValue)}
    ELSE LET off == cast_add(idx, 1)
         IN  {Success(d, v, NoPtr, span(off, size)) : v \in read_at(d, off, size)}

\* DataSlice::replace: core::ptr::replace(cast::<T>().add(idx), value); the
\* error is a bare IdxError, the value is not part of it
DataSlice_replace(d, idx, value) ==
    LET type_size == Len(value)
    IN  IF out_of_bounds(Len(d), idx, type_size)
        THEN {Failure(d, IdxError(idx, Len(d), type_size), NoValue)}
        ELSE LET off == cast_add(idx, type_size)
             IN  {Success(write_at(d, off, value), v, NoPtr, span(off, type_size)) :
                     v \in read_at(d, off, type_size)}

(***************************************************************************)
(* RawDataStructure: the trait's default methods over a backend b.  The    *)
(* required *_unchecked methods of all three backends forward to the       *)
(* inherent DataSlice methods.                                             *)
(***************************************************************************)
\* RawDataStructure::write_unsized_unchecked as implemented by the backends
Trait_write_unsized_unchecked(b, d, idx, value) ==
    DataSlice_write_unsized_unchecked(d, idx, value)

\* RawDataStructure::write_unchecked: self.write_unsized_unchecked(idx, &value)
Trait_write_unchecked(b, d, idx, value) ==
    Trait_write_unsized_unchecked(b, d, idx, value)

\* slip: the error path returns only the error and the value is lost
Trait_write_losing_value(b, d, idx, value) ==
    LET chk == write_validity(b, Len(d), idx, Len(value))
    IN  IF ~chk.ok
        THEN {Failure(d, chk.err, NoValue)}
        ELSE Trait_write_unchecked(b, d, idx, value)

\* RawDataStructure::write
Trait_write(b, d, idx, value) ==
    LET chk == write_validity(b, Len(d), idx, Len(value))
    IN  IF ~chk.ok
        THEN {Failure(d, chk.err, value)}
        ELSE Trait_write_unchecked(b, d, idx, value)

\* RawDataStructure::write_zeroes over the backends' write_zeroes_unchecked
Trait_write_zeroes(b, d, idx, size) ==
    LET chk == write_validity(b, Len(d), idx, size)
    IN  IF ~chk.ok
        THEN {Failure(d, chk.err, NoValue)}
        ELSE DataSlice_write_zeroes_unchecked(d, idx, size)

\* RawDataStructure::write_ones over the backends' write_ones_unchecked
Trait_write_ones(b, d, idx, size) ==
    LET chk == write_validity(b, Len(d), idx, size)
    IN  IF ~chk.ok
        THEN {Failure(d, chk.err, NoValue)}
        ELSE DataSlice_write_ones_unchecked(d, idx, size)

\* RawDataStructure::write_unsized: value.as_ref() is matched before the check
Trait_write_unsized(b, d, idx, value) ==
    IF value = Null
    THEN {Panic(d)}
    ELSE LET chk == write_validity(b, Len(d), idx, Len(value))
         IN  IF ~chk.ok
             THEN {Failure(d, chk.err, NoValue)}
             ELSE Trait_write_unsized_unchecked(b, d, idx, value)

\* RawDataStructure::read over the backends' read_unchecked
Trait_read(b, d, idx, size) ==
    LET chk == read_validity(b, Len(d), idx, size)
    IN  IF ~chk.ok
        THEN {Failure(d, chk.err, NoValue)}
        ELSE DataSlice_read_unchecked(d, idx, size)

\* RawDataStructure::read_mut over the backends' read_mut_unchecked
Trait_read_mut(b, d, idx, size) ==
    LET chk == read_validity(b, Len(d), idx, size)
    IN  IF ~chk.ok
        THEN {Failure(d, chk.err, NoValue)}
        ELSE DataSlice_read_mut_unchecked(d, idx, size)

\* RawDataStructure::take_unchecked as implemented by the backends
Trait_take_unchecked(b, d, idx, size) == DataSlice_take_unchecked(d, idx, size)

\* RawDataStructure::take
Trait_take(b, d, idx, size) ==
    LET chk == write_validity(b, Len(d), idx, size)
    IN  IF ~chk.ok
        THEN {Failure(d, chk.err, NoValue)}
        ELSE Trait_take_unchecked(b, d, idx, size)

\* the rest of a take_zeroed / replace after its take returned t: run `rest`
\* on the region and return the taken value
AndThen(t, rest) ==
    {IF w.panic THEN w
     ELSE Success(w.data, t.ret, NoPtr, t.touched \cup w.touched) : w \in rest}

\* RawDataStructure::take_zeroed_unchecked
Trait_take_zeroed_unchecked(b, d, idx, size) ==
    UNION {AndThen(t, DataSlice_write_zeroes_unchecked(d, idx, size)) :
              t \in Trait_take_unchecked(b, d, idx, size)}

\* RawDataStructure::take_zeroed: self.take(idx)? then write_zeroes_unchecked
Trait_take_zeroed(b, d, idx, size) ==
    UNION {IF ~t.ok THEN {t}
           ELSE AndThen(t, DataSlice_write_zeroes_unchecked(d, idx, size)) :
              t \in Trait_take(b, d, idx, size)}

\* RawDataStructure::replace_unchecked: take_unchecked then write_unchecked
Trait_replace_unchecked(b, d, idx, value) ==
    UNION {AndThen(t, Trait_write_unchecked(b, d, idx, value)) :
              t \in Trait_take_unchecked(b, d, idx, Len(value))}

\* RawDataStructure::replace
Trait_replace(b, d, idx, value) ==
    LET chk == full_validity(b, Len(d), idx, Len(value))
    IN  IF ~chk.ok
        THEN {Failure(d, chk.err, value)}
        ELSE Trait_replace_unchecked(b, d, idx, value)

(***************************************************************************)
(* const_ops: the same protocol as free functions over a byte slice.       *)
(***************************************************************************)
\* const_ops::write_unsized_unchecked
const_ops_write_unsized_unchecked(d, idx, value) ==
    IF value = Null
    THEN {Panic(d)}
    ELSE IF Len(value) > 0 /\ idx + Len(value) > Len(d)
         THEN {Panic(copy_bytes(d, idx, value))}
         ELSE {Success(copy_bytes(d, idx, value), NoValue, NoPtr, span(idx, Len(value)))}

\* const_ops::write_unchecked
const_ops_write_unchecked(d, idx, value) ==
    const_ops_write_unsized_unchecked(d, idx, value)

\* const_ops::write
const_ops_write(d, idx, value) ==
    LET chk == const_ops_validity(Len(d), idx, Len(value))
    IN  IF ~chk.ok
        THEN {Failure(d, chk.err, value)}
        ELSE const_ops_write_unchecked(d, idx, value)

\* const_ops::write_zeroes_unchecked: slice[at] = 0x00 for at in idx .. idx + size
const_ops_write_zeroes_unchecked(d, idx, size) ==
    IF idx + size > Len(d)
    THEN {Panic(fill_bytes(d, idx, size, 0))}
    ELSE {Success(fill_bytes(d, idx, size, 0), NoValue, NoPtr, span(idx, size))}

\* const_ops::write_zeroes
const_ops_write_zeroes(d, idx, size) ==
    LET chk == const_ops_validity(Len(d), idx, size)
    IN  IF ~chk.ok
        THEN {Failure(d, chk.err, NoValue)}
        ELSE const_ops_write_zeroes_unchecked(d, idx, size)

\* const_ops::write_ones_unchecked
const_ops_write_ones_unchecked(d, idx, size) ==
    IF idx + size > Len(d)
    THEN {Panic(fill_bytes(d, idx, size, 255))}
    ELSE {Success(fill_bytes(d, idx, size, 255), NoValue, NoPtr, span(idx, size))}

\* const_ops::write_ones
const_ops_write_ones(d, idx, size) ==
    LET chk == const_ops_validity(Len(d), idx, size)
    IN  IF ~chk.ok
        THEN {Failure(d, chk.err, NoValue)}
        ELSE const_ops_write_ones_unchecked(d, idx, size)

const_ops_write_unsized_inclusive(d, idx, value) ==
    IF value = Null
    THEN {Panic(d)}
    ELSE IF idx + Len(value) > Len(d)
         THEN {Failure(d, IdxError(idx, Len(d), Len(value)), NoValue)}
         ELSE const_ops_write_unsized_unchecked(d, idx, value)

\* const_ops::write_unsized
const_ops_write_unsized(d, idx, value) ==
    IF value = Null
    THEN {Panic(d)}
    ELSE LET chk == const_ops_validity(Len(d), idx, Len(value))
         IN  IF ~chk.ok
             THEN {Failure(d, chk.err, NoValue)}
             ELSE const_ops_write_unsized_unchecked(d, idx, value)

\* const_ops::read_unchecked: (slice as *const [u8]).cast::<T>().add(idx)
const_ops_read_unchecked(d, idx, size) ==
    {Success(d, NoValue, cast_add(idx, size), {})}

\* const_ops::read
const_ops_read(d, idx, size) ==
    LET chk == const_ops_validity(Len(d), idx, size)
    IN  IF ~chk.ok
        THEN {Failure(d, chk.err, NoValue)}
        ELSE const_ops_read_unchecked(d, idx, size)

\* const_ops::read_mut_unchecked
const_ops_read_mut_unchecked(d, idx, size) ==
    {Success(d, NoValue, cast_add(idx, size), {})}

\* const_ops::read_mut
const_ops_read_mut(d, idx, size) ==
    LET chk == const_ops_validity(Len(d), idx, size)
    IN  IF ~chk.ok
        THEN {Failure(d, chk.err, NoValue)}
        ELSE const_ops_read_mut_unchecked(d, idx, size)

\* const_ops::take_unchecked: (slice as *const [u8]).cast::<T>().add(idx).read()
const_ops_take_unchecked(d, idx, size) ==
    LET off == cast_add(idx, size)
    IN  {Success(d, v, NoPtr, span(off, size)) : v \in read_at(d, off, size)}

\* const_ops::take
const_ops_take(d, idx, size) ==
    LET chk == const_ops_validity(Len(d), idx, size)
    IN  IF ~chk.ok
        THEN {Failure(d, chk.err, NoValue)}
        ELSE const_ops_take_unchecked(d, idx, size)

\* const_ops::take_zeroed_unchecked
const_ops_take_zeroed_unchecked(d, idx, size) ==
    UNION {AndThen(t, const_ops_write_zeroes_unchecked(d, idx, size)) :
              t \in const_ops_take_unchecked(d, idx, size)}

\* const_ops::take_zeroed
const_ops_take_zeroed(d, idx, size) ==
    LET chk == const_ops_validity(Len(d), idx, size)
    IN  IF ~chk.ok
        THEN {Failure(d, chk.err, NoValue)}
        ELSE const_ops_take_zeroed_unchecked(d, idx, size)

\* const_ops::replace_unchecked
const_ops_replace_unchecked(d, idx, value) ==
    UNION {AndThen(t, const_ops_write_unchecked(d, idx, value)) :
              t \in const_ops_take_unchecked(d, idx, Len(value))}

\* const_ops::replace
const_ops_replace(d, idx, value) ==
    LET chk == const_ops_validity(Len(d), idx, Len(value))
    IN  IF ~chk.ok
        THEN {Failure(d, chk.err, value)}
        ELSE const_ops_replace_unchecked(d, idx, value)

(***************************************************************************)
(* The forms in which a backend exposes each operation.  DataArray's       *)
(* inherent methods are `self.deref_mut().op(..)` and DataBoxed derefs to  *)
(* DataSlice, so the inherent form is DataSlice's on every backend; the    *)
(* const_ops functions are applied to the byte slice of a DataSlice.       *)
(***************************************************************************)
Apis(b) == IF b = "slice" THEN {"inherent", "trait", "const_ops"} ELSE {"inherent", "trait"}

write(api, b, d, idx, value) ==
    CASE api = "inherent" -> DataSlice_write(d, idx, value)
      [] api = "trait" -> Trait_write(b, d, idx, value)
      [] api = "const_ops" -> const_ops_write(d, idx, value)

write_unsized(api, b, d, idx, value) ==
    CASE api = "inherent" -> DataSlice_write_unsized(d, idx, value)
      [] api = "trait" -> Trait_write_unsized(b, d, idx, value)
      [] api = "const_ops" -> const_ops_write_unsized(d, idx, value)

write_unsized_unchecked(api, b, d, idx, value) ==
    CASE api = "inherent" -> DataSlice_write_unsized_unchecked(d, idx, value)
      [] api = "trait" -> Trait_write_unsized_unchecked(b, d, idx, value)
      [] api = "const_ops" -> const_ops_write_unsized_unchecked(d, idx, value)

write_zeroes(api, b, d, idx, size) ==
    CASE api = "inherent" -> DataSlice_write_zeroes(d, idx, size)
      [] api = "trait" -> Trait_write_zeroes(b, d, idx, size)
      [] api = "const_ops" -> const_ops_write_zeroes(d, idx, size)

write_ones(api, b, d, idx, size) ==
    CASE api = "inherent" -> DataSlice_write_ones(d, idx, size)
      [] api = "trait" -> Trait_write_ones(b, d, idx, size)
      [] api = "const_ops" -> const_ops_write_ones(d, idx, size)

read(api, b, d, idx, size) ==
    CASE api = "inherent" -> DataSlice_read(d, idx, size)
      [] api = "trait" -> Trait_read(b, d, idx, size)
      [] api = "const_ops" -> const_ops_read(d, idx, size)

read_mut(api, b, d, idx, size) ==
    CASE api = "inherent" -> DataSlice_read_mut(d, idx, size)
      [] api = "trait" -> Trait_read_mut(b, d, idx, size)
      [] api = "const_ops" -> const_ops_read_mut(d, idx, size)

take(api, b, d, idx, size) ==
    CASE api = "inherent" -> DataSlice_take(d, idx, size)
      [] api = "trait" -> Trait_take(b, d, idx, size)
      [] api = "const_ops" -> const_ops_take(d, idx, size)

\* DataSlice and DataArray have no inherent take_zeroed
take_zeroed(api, b, d, idx, size) ==
    CASE api = "trait" -> Trait_take_zeroed(b, d, idx, size)
      [] api = "const_ops" -> const_ops_take_zeroed(d, idx, size)

replace(api, b, d, idx, value) ==
    CASE api = "inherent" -> DataSlice_replace(d, idx, value)
      [] api = "trait" -> Trait_replace(b, d, idx, value)
      [] api = "const_ops" -> const_ops_replace(d, idx, value)

\* the unchecked form of each operation, in the form the call resolves to:
\* the trait's required *_unchecked methods forward to DataSlice's inherent
\* ones, and DataSlice has no inherent take_zeroed_unchecked or
\* replace_unchecked, so those two resolve to the trait's provided methods
unchecked(op, api, b, d, idx, size, value) ==
    CASE op = "write" ->
            (CASE api = "inherent" -> DataSlice_write_unchecked(d, idx, value)
               [] api = "trait" -> Trait_write_unchecked(b, d, idx, value)
               [] api = "const_ops" -> const_ops_write_unchecked(d, idx, value))
      [] op = "write_zeroes" ->
            (IF api = "const_ops" THEN const_ops_write_zeroes_unchecked(d, idx, size)
             ELSE DataSlice_write_zeroes_unchecked(d, idx, size))
      [] op = "write_ones" ->
            (IF api = "const_ops" THEN const_ops_write_ones_unchecked(d, idx, size)
             ELSE DataSlice_write_ones_unchecked(d, idx, size))
      [] op = "read" ->
            (IF api = "const_ops" THEN const_ops_read_unchecked(d, idx, size)
             ELSE DataSlice_read_unchecked(d, idx, size))
      [] op = "take" ->
            (CASE api = "inherent" -> DataSlice_take_unchecked(d, idx, size)
               [] api = "trait" -> Trait_take_unchecked(b, d, idx, size)
               [] api = "const_ops" -> const_ops_take_unchecked(d, idx, size))
      [] op = "take_zeroed" ->
            (IF api = "const_ops" THEN const_ops_take_zeroed_unchecked(d, idx, size)
             ELSE Trait_take_zeroed_unchecked(b, d, idx, size))
      [] op = "replace" ->
            (IF api = "const_ops" THEN const_ops_replace_unchecked(d, idx, value)
             ELSE Trait_replace_unchecked(b, d, idx, value))

\* a validity check as a call
Checked(d, chk) == IF chk.ok THEN Success(d, NoValue, NoPtr, {}) ELSE Failure(d, chk.err, NoValue)

(***************************************************************************)
(* Sub-regions.  A range is a pair of core::ops::Bound<usize>; a view is    *)
(* the sub-slice handed back: its first byte's offset in the parent and its *)
(* length.  `overflow` records an unchecked idx + 1 that left usize.        *)
(***************************************************************************)
Unbounded == [kind |-> "Unbounded", i |-> 0]
Included(i) == [kind |-> "Included", i |-> i]
Excluded(i) == [kind |-> "Excluded", i |-> i]
Bounds == {Unbounded} \cup {Included(i) : i \in Usize} \cup {Excluded(i) : i \in Usize}
Range(s, e) == [start |-> s, end |-> e]
NoRange == Range(Unbounded, Unbounded)
\* the range ..
RangeFull == Range(Unbounded, Unbounded)

\* impl Idx for usize, ops::Range<usize> and ops::RangeInclusive<usize>
Idx_usize(i) == Range(Included(i), Included(i))
Idx_Range(a, b) == Range(Included(a), Excluded(b))
Idx_RangeInclusive(a, b) == Range(Included(a), Included(b))

saturating_add(a, b) == IF a + b > UsizeMax THEN UsizeMax ELSE a + b
saturating_sub(a, b) == IF a < b THEN 0 ELSE a - b

NoView == [some |-> FALSE, off |-> 0, len |-> 0, overflow |-> FALSE]
from_raw_parts_short(start, end) ==
    [some |-> TRUE, off |-> start, len |-> saturating_sub(saturating_sub(end, start), 1),
     overflow |-> start > UsizeMax]

\* core::slice::from_raw_parts(ptr.add(start), end.saturating_sub(start))
from_raw_parts(start, end) ==
    [some |-> TRUE, off |-> start, len |-> saturating_sub(end, start),
     overflow |-> start > UsizeMax]

\* get_const's `return None` of a bound
Reject == -1

get_const_start_unguarded(cap, b) ==
    CASE b.kind = "Unbounded" -> 0
      [] b.kind = "Included" -> IF b.i < cap THEN b.i ELSE Reject
      [] b.kind = "Excluded" -> b.i + 1

\* DataSlice::get_const, the start bound (inclusive)
get_const_start(cap, b) ==
    CASE b.kind = "Unbounded" -> 0
      [] b.kind = "Included" -> IF b.i < cap THEN b.i ELSE Reject
      [] b.kind = "Excluded" -> IF saturating_add(b.i, 1) < cap THEN b.i + 1 ELSE Reject

get_const_end_inclusive(cap, b) ==
    CASE b.kind = "Unbounded" -> cap
      [] b.kind = "Included" -> IF b.i < cap THEN b.i + 1 ELSE Reject
      [] b.kind = "Excluded" -> IF b.i <= cap THEN b.i ELSE Reject

\* DataSlice::get_const, the end bound (exclusive)
get_const_end(cap, b) ==
    CASE b.kind = "Unbounded" -> cap
      [] b.kind = "Included" -> IF b.i < cap THEN saturating_sub(b.i, 1) ELSE Reject
      [] b.kind = "Excluded" -> IF b.i <= cap THEN b.i ELSE Reject

\* slip: an excluded end bound is taken as it is, without `idx <= self.size()`
DataSlice_get_const_end_unguarded(d, start, end) ==
    IF Len(d) = 0 THEN NoView
    ELSE LET s == get_const_start(Len(d), start)
             e == IF end.kind = "Excluded" THEN end.i ELSE get_const_end(Len(d), end)
         IN  IF s = Reject THEN NoView
             ELSE IF e = Reject THEN NoView
             ELSE from_raw_parts(s, e)

\* DataSlice::get_const and get_mut_const (the same resolution)
DataSlice_get_const(d, start, end) ==
    IF Len(d) = 0 THEN NoView
    ELSE LET s == get_const_start(Len(d), start)
             e == get_const_end(Len(d), end)
         IN  IF s = Reject THEN NoView
             ELSE IF e = Reject THEN NoView
             ELSE from_raw_parts(s, e)

\* DataSlice::get and get_mut: get_const(idx.start(), idx.end())
DataSlice_get(d, range) == DataSlice_get_const(d, range.start, range.end)

\* <DataSlice as DataStructureSlice>::get_unchecked and get_mut_unchecked
DataSlice_get_unchecked(d, range) ==
    LET s == CASE range.start.kind = "Unbounded" -> 0
               [] range.start.kind = "Included" -> range.start.i
               [] range.start.kind = "Excluded" -> saturating_add(range.start.i, 1)
        e == CASE range.end.kind = "Unbounded" -> Len(d)
               [] range.end.kind = "Included" -> saturating_sub(range.end.i, 1)
               [] range.end.kind = "Excluded" -> range.end.i
    IN  from_raw_parts(s, e)

DataStructureSlice_get_no_empty_check(d, range) ==
    IF \/ range.start.kind = "Included" /\ range.start.i >= Len(d)
       \/ range.start.kind = "Excluded" /\ saturating_add(range.start.i, 1) >= Len(d)
    THEN NoView
    ELSE IF \/ range.end.kind = "Included" /\ range.end.i >= Len(d)
            \/ range.end.kind = "Excluded" /\ range.end.i > Len(d)
         THEN NoView
    ELSE DataSlice_get_unchecked(d, range)

\* slip: an excluded end bound equal to size() is rejected
DataStructureSlice_get_end_strict(d, range) ==
    IF Len(d) = 0 THEN NoView
    ELSE IF \/ range.start.kind = "Included" /\ range.start.i >= Len(d)
            \/ range.start.kind = "Excluded" /\ saturating_add(range.start.i, 1) >= Len(d)
         THEN NoView
    ELSE IF \/ range.end.kind = "Included" /\ range.end.i >= Len(d)
            \/ range.end.kind = "Excluded" /\ range.end.i >= Len(d)
         THEN NoView
    ELSE DataSlice_get_unchecked(d, range)

\* DataStructureSlice::get and get_mut, the default bodies
DataStructureSlice_get(d, range) ==
    IF Len(d) = 0 THEN NoView
    ELSE IF \/ range.start.kind = "Included" /\ range.start.i >= Len(d)
            \/ range.start.kind = "Excluded" /\ saturating_add(range.start.i, 1) >= Len(d)
         THEN NoView
    ELSE IF \/ range.end.kind = "Included" /\ range.end.i >= Len(d)
            \/ range.end.kind = "Excluded" /\ range.end.i > Len(d)
         THEN NoView
    ELSE DataSlice_get_unchecked(d, range)

\* DataSlice overrides the trait's get with its inherent get; DataArray and
\* the DerefDataSlice types keep the default
Trait_get(b, d, range) ==
    IF b = "slice" THEN DataSlice_get(d, range) ELSE DataStructureSlice_get(d, range)

get(api, b, d, range) ==
    CASE api = "inherent" -> DataSlice_get(d, range)
      [] api = "trait" -> Trait_get(b, d, range)

\* DataStructureSlice::as_data_slice and as_data_slice_mut: get_unchecked(..);
\* DataSlice returns self
as_data_slice(b, d) ==
    IF b = "slice" THEN from_raw_parts(0, Len(d)) ELSE DataSlice_get_unchecked(d, RangeFull)

(***************************************************************************)
(* DataArray<SIZE> from a byte slice or a DataSlice.                        *)
(***************************************************************************)
\* Err(DiferentSizesError { gotten_size })
DiferentSizesError(gotten_size) == [ok |-> FALSE, gotten_size |-> gotten_size, inner |-> NoValue]

\* data.inner.copy_from_slice(slice) on a fresh DataArray::<SIZE>::uninit()
copy_from_slice(SIZE, slice) == [k \in 1 .. SIZE |-> slice[k]]

DataArray_try_from_slice_reports_SIZE(SIZE, slice) ==
    IF Len(slice) # SIZE
    THEN DiferentSizesError(SIZE)
    ELSE [ok |-> TRUE, gotten_size |-> None, inner |-> copy_from_slice(SIZE, slice)]

\* DataArray::try_from_slice
DataArray_try_from_slice(SIZE, slice) ==
    IF Len(slice) # SIZE
    THEN DiferentSizesError(Len(slice))
    ELSE [ok |-> TRUE, gotten_size |-> None, inner |-> copy_from_slice(SIZE, slice)]

\* DataArray::try_from_data_slice
DataArray_try_from_data_slice(SIZE, slice) ==
    IF Len(slice) # SIZE
    THEN DiferentSizesError(Len(slice))
    ELSE [ok |-> TRUE, gotten_size |-> None, inner |-> copy_from_slice(SIZE, slice)]

\* <DataArray as TryFrom<&[u8]>>::try_from
TryFrom_slice(SIZE, slice) ==
    IF Len(slice) # SIZE
    THEN DiferentSizesError(Len(slice))
    ELSE [ok |-> TRUE, gotten_size |-> None, inner |-> copy_from_slice(SIZE, slice)]

\* <DataArray as TryFrom<&DataSlice>>::try_from
TryFrom_DataSlice(SIZE, slice) ==
    IF Len(slice) # SIZE
    THEN DiferentSizesError(Len(slice))
    ELSE [ok |-> TRUE, gotten_size |-> None, inner |-> copy_from_slice(SIZE, slice)]

TryFromForms == {"try_from_slice", "try_from_data_slice", "TryFrom<&[u8]>", "TryFrom<&DataSlice>"}

try_from(form, SIZE, slice) ==
    CASE form = "try_from_slice" -> DataArray_try_from_slice(SIZE, slice)
      [] form = "try_from_data_slice" -> DataArray_try_from_data_slice(SIZE, slice)
      [] form = "TryFrom<&[u8]>" -> TryFrom_slice(SIZE, slice)
      [] form = "TryFrom<&DataSlice>" -> TryFrom_DataSlice(SIZE, slice)

(***************************************************************************)
(* Whole-region copies: clone_from, and the heap constructors of           *)
(* DataBoxed and Box<DataSlice>.                                           *)
(***************************************************************************)
\* all regions of capacity at most MaxCap
Regions == UNION {[1 .. cap -> Byte] : cap \in 0 .. MaxCap}

\* no (self.size(), data.size()) pair
NoSizes == <<>>

\* the outcome of a whole-region copy into self
CopyOutcome(d, src, ok, panic, sizes) ==
    [data |-> d, src |-> src, ok |-> ok, panic |-> panic, sizes |-> sizes]

\* DataSlice: self.inner.copy_from_slice(&data.inner), which panics before
\* copying when the two lengths differ
DataSlice_clone_from_unchecked(d, src) ==
    IF Len(d) # Len(src)
    THEN CopyOutcome(d, src, FALSE, TRUE, NoSizes)
    ELSE CopyOutcome(src, src, TRUE, FALSE, NoSizes)

\* DataArray<SIZE>: for (idx, byte) in self.iter_mut().enumerate() { *byte = data.inner[idx] }
\* (data is a DataArray<SIZE> too; data.inner[idx] is a checked index)
DataArray_clone_from_unchecked(d, src) ==
    IF Len(d) > Len(src)
    THEN CopyOutcome([i \in 1 .. Len(d) |-> IF i <= Len(src) THEN src[i] ELSE d[i]],
                     src, FALSE, TRUE, NoSizes)
    ELSE CopyOutcome([i \in 1 .. Len(d) |-> src[i]], src, TRUE, FALSE, NoSizes)

\* DataBoxed forwards to DataSlice through Deref
clone_from_unchecked(b, d, src) ==
    IF b = "array" THEN DataArray_clone_from_unchecked(d, src)
    ELSE DataSlice_clone_from_unchecked(d, src)

\* RawDataStructure::clone_from, the provided method
\* slip: the two sizes of the error are exchanged
clone_from_sizes_swapped(b, d, src) ==
    IF Len(d) # Len(src)
    THEN CopyOutcome(d, src, FALSE, FALSE, <<Len(src), Len(d)>>)
    ELSE clone_from_unchecked(b, d, src)

\* slip: self takes the bytes of data whatever their number
clone_from_assigning(b, d, src) ==
    CopyOutcome(src, src, TRUE, FALSE, NoSizes)

clone_from(b, d, src) ==
    IF Len(d) # Len(src)
    THEN CopyOutcome(d, src, FALSE, FALSE, <<Len(d), Len(src)>>)
    ELSE clone_from_unchecked(b, d, src)

\* the arguments clone_from accepts: a &Self, which for DataArray<SIZE> has
\* the capacity SIZE of self
Sources(b, d) ==
    IF b = "array" THEN [1 .. Len(d) -> Byte] ELSE Regions

\* the result of a fallible constructor: Ok(region), Err(TryReserveError), or
\* a panic
Constructed(inner) == [ok |-> TRUE, panic |-> FALSE, inner |-> inner]
TryReserveError == [ok |-> FALSE, panic |-> FALSE, inner |-> <<>>]
Todo == [ok |-> FALSE, panic |-> TRUE, inner |-> <<>>]

\* DataBoxed::uninit(size): a fresh allocation with any bytes (uninit_in can
\* fail with the allocator's error)
DataBoxed_uninit(size) ==
    {Constructed(inner) : inner \in [1 .. size -> Byte]} \cup {TryReserveError}

\* while idx < self.size() { data.inner[idx] = self.inner[idx]; idx += 1 }
RECURSIVE clone_loop(_, _, _)
clone_loop(dst, src, idx) ==
    IF idx < Len(src)
    THEN clone_loop([dst EXCEPT ![idx + 1] = src[idx + 1]], src, idx + 1)
    ELSE dst

DataBoxed_clone_uncopied(d) ==
    DataBoxed_uninit(Len(d))

\* DataBoxed::clone
DataBoxed_clone(d) ==
    {IF u.ok THEN Constructed(clone_loop(u.inner, d, 0)) ELSE u : u \in DataBoxed_uninit(Len(d))}

\* DataStructureAllocConstructor::clone, the provided method (Box<DataSlice>)
DataStructureAllocConstructor_clone(d) ==
    {IF u.ok
     THEN LET c == DataSlice_clone_from_unchecked(u.inner, d)
          IN  IF c.panic THEN Todo ELSE Constructed(c.data)
     ELSE u : u \in DataBoxed_uninit(Len(d))}

\* the forms of clone: DataBoxed::clone, DataBoxed's implementation of the
\* trait method (self.clone()), and the provided method on Box<DataSlice>
CloneForms == {"inherent", "trait", "provided"}

clone(form, d) ==
    IF form = "provided" THEN DataStructureAllocConstructor_clone(d) ELSE DataBoxed_clone(d)

\* <DataBoxed as DataStructureAllocConstructor>::from_data_array:
\* uninit(SIZE)?, then data.inner.copy_from_slice(&array.inner)
DataBoxed_from_data_array(array) ==
    {IF u.ok THEN Constructed(copy_from_slice(Len(array), array)) ELSE u :
        u \in DataBoxed_uninit(Len(array))}

\* <Box<DataSlice> as DataStructureAllocConstructor>::from_data_array: todo!()
BoxDataSlice_from_data_array(array) ==
    {Todo}

\* the implementors of DataStructureAllocConstructor
AllocConstructors == {"DataBoxed", "Box<DataSlice>"}

from_data_array(impl, array) ==
    IF impl = "DataBoxed" THEN DataBoxed_from_data_array(array)
    ELSE BoxDataSlice_from_data_array(array)

(***************************************************************************)
(* <IdxError as Display>::fmt: the message written, or the panic of its    *)
(* last branch.                                                            *)
(***************************************************************************)
NoMsg == "none"
Unimplemented == "unimplemented!"

IdxError_fmt(e) ==
    IF e.idx > e.data_size
    THEN "Can not acces data at idx because it is greater then size."
    ELSE IF checked_add(e.idx, e.type_size) = None \/ checked_add(e.idx, e.type_size) > e.data_size
    THEN "Can not acces data at idx because the size of the data is too large."
    ELSE Unimplemented

(***************************************************************************)
(* Operations through a view.  A view is a DataSlice over the parent's     *)
(* bytes [off, off + len): its methods are DataSlice's, applied to those   *)
(* bytes in place.                                                         *)
(***************************************************************************)
\* the bytes a view covers
view_bytes(parent, v) == SubSeq(parent, v.off + 1, v.off + v.len)

\* the parent after the view's bytes became `bytes`
splice(parent, v, bytes) ==
    [i \in 1 .. Len(parent) |->
        IF v.off < i /\ i <= v.off + v.len THEN bytes[i - v.off] ELSE parent[i]]

\* the outcomes of a call on the view, as outcomes on the parent
through_view(parent, v, outs) ==
    {[o EXCEPT !.data = splice(parent, v, o.data),
               !.touched = {v.off + t : t \in o.touched},
               !.ptr = IF o.ptr = NoPtr THEN NoPtr ELSE v.off + o.ptr] : o \in outs}

\* DataSlice::replace on a view: the bounds test uses the view's size, and
\* the pointer self.inner.as_mut_ptr().cast::<T>().add(idx) is taken from the
\* view's first byte, inside the parent's allocation
DataSlice_replace_through_view(parent, v, idx, value) ==
    LET type_size == Len(value)
    IN  IF out_of_bounds(v.len, idx, type_size)
        THEN {Failure(parent, IdxError(idx, v.len, type_size), NoValue)}
        ELSE LET off == v.off + cast_add(idx, type_size)
             IN  {Success(write_at(parent, off, value), r, NoPtr, span(off, type_size)) :
                     r \in read_at(parent, off, type_size)}

\* the operations that write through a &mut DataSlice, in the inherent and
\* the trait form
ViewOps == {"write", "write_zeroes", "write_ones", "take_zeroed", "replace"}

view_op(parent, v, op, api, idx, size, value) ==
    CASE op = "write" ->
            through_view(parent, v, write(api, "slice", view_bytes(parent, v), idx, value))
      [] op = "write_zeroes" ->
            through_view(parent, v, write_zeroes(api, "slice", view_bytes(parent, v), idx, size))
      [] op = "write_ones" ->
            through_view(parent, v, write_ones(api, "slice", view_bytes(parent, v), idx, size))
      [] op = "take_zeroed" ->
            through_view(parent, v, take_zeroed("trait", "slice", view_bytes(parent, v), idx, size))
      [] op = "replace" ->
            IF api = "inherent" THEN DataSlice_replace_through_view(parent, v, idx, value)
            ELSE through_view(parent, v, replace(api, "slice", view_bytes(parent, v), idx, value))

\* a view of a view, in the parent's offsets
nested(v, w) ==
    IF w.some THEN [w EXCEPT !.off = v.off + w.off] ELSE w

(***************************************************************************)
(* State.  backend: the type owning the region; data: its bytes; last: the *)
(* call in progress with its arguments, the bytes before it and its        *)
(* outcome; pc: "ready" between calls, "called" when a call has returned   *)
(* to its caller, "panicked" after a panic ("cloned", "written", "viewing"  *)
(* and "view_called" are the positions of the clone and view scripts);     *)
(* other: the region a clone returned.                                     *)
(***************************************************************************)
NoCall ==
    [op |-> "none", api |-> "none", idx |-> 0, size |-> 0, value |-> NoValue,
     old |-> <<>>, ok |-> FALSE, panic |-> FALSE, err |-> NoError, ret |-> NoValue,
     back |-> NoValue, ptr |-> NoPtr, touched |-> {}, range |-> NoRange, view |-> NoView,
                      gotten_size |-> None, sizes |-> NoSizes, msg |-> NoMsg, outer |-> NoView]

\* constructors: uninit (any bytes), zeroed, filled(byte), from_array
Init ==
    /\ backend \in Backends
    /\ \E cap \in 0 .. MaxCap : data \in [1 .. cap -> Byte]
    /\ last = NoCall
    /\ pc = "ready"
    /\ other = <<>>

\* one call op(idx, ..) in form api with the possible outcomes outs
Call(op, api, idx, size, value, outs) ==
    /\ \E o \in outs :
          /\ data' = o.data
          /\ last' = [op |-> op, api |-> api, idx |-> idx, size |-> size, value |-> value,
                      old |-> data, ok |-> o.ok, panic |-> o.panic, err |-> o.err,
                      ret |-> o.ret, back |-> o.back, ptr |-> o.ptr, touched |-> o.touched,
                      range |-> NoRange, view |-> NoView,
                      gotten_size |-> None, sizes |-> NoSizes, msg |-> NoMsg, outer |-> NoView]
          /\ pc' = IF o.panic THEN "panicked" ELSE "called"
    /\ UNCHANGED <<backend, other>>

ReadValidity ==
    /\ pc = "ready"
    /\ \E idx \in Usize, size \in Usize :
            Call("read_validity", "trait", idx, size, NoValue,
                 {Checked(data, read_validity(backend, Len(data), idx, size))})

WriteValidity ==
    /\ pc = "ready"
    /\ \E idx \in Usize, size \in Usize :
            Call("write_validity", "trait", idx, size, NoValue,
                 {Checked(data, write_validity(backend, Len(data), idx, size))})

FullValidity ==
    /\ pc = "ready"
    /\ \E idx \in Usize, size \in Usize :
            Call("full_validity", "trait", idx, size, NoValue,
                 {Checked(data, full_validity(backend, Len(data), idx, size))})

ConstOpsValidity ==
    /\ pc = "ready"
    /\ \E idx \in Usize, size \in Usize :
            /\ "const_ops" \in Apis(backend)
            /\ Call("validity", "const_ops", idx, size, NoValue,
                    {Checked(data, const_ops_validity(Len(data), idx, size))})

Write ==
    /\ pc = "ready"
    /\ \E api \in Apis(backend), idx \in Usize, value \in AllValues :
            Call("write", api, idx, Len(value), value, write(api, backend, data, idx, value))

WriteUnsized ==
    /\ pc = "ready"
    /\ \E api \in Apis(backend), idx \in Usize, value \in AllValues \cup {Null} :
            Call("write_unsized", api, idx, IF value = Null THEN 0 ELSE Len(value), value,
                 write_unsized(api, backend, data, idx, value))

WriteUnsizedUnchecked ==
    /\ pc = "ready"
    /\ \E api \in Apis(backend), idx \in Usize, value \in AllValues \cup {Null} :
            Call("write_unsized_unchecked", api, idx, IF value = Null THEN 0 ELSE Len(value), value,
                 write_unsized_unchecked(api, backend, data, idx, value))

WriteZeroes ==
    /\ pc = "ready"
    /\ \E api \in Apis(backend), idx \in Usize, size \in Usize :
            Call("write_zeroes", api, idx, size, NoValue, write_zeroes(api, backend, data, idx, size))

WriteOnes ==
    /\ pc = "ready"
    /\ \E api \in Apis(backend), idx \in Usize, size \in Usize :
            Call("write_ones", api, idx, size, NoValue, write_ones(api, backend, data, idx, size))

Read ==
    /\ pc = "ready"
    /\ \E api \in Apis(backend), idx \in Usize, size \in TypeSizes :
            Call("read", api, idx, size, NoValue, read(api, backend, data, idx, size))

ReadMut ==
    /\ pc = "ready"
    /\ \E api \in Apis(backend), idx \in Usize, size \in TypeSizes :
            Call("read_mut", api, idx, size, NoValue, read_mut(api, backend, data, idx, size))

Take ==
    /\ pc = "ready"
    /\ \E api \in Apis(backend), idx \in Usize, size \in TypeSizes :
            Call("take", api, idx, size, NoValue, take(api, backend, data, idx, size))

TakeZeroed ==
    /\ pc = "ready"
    /\ \E api \in Apis(backend) \ {"inherent"}, idx \in Usize, size \in TypeSizes :
            Call("take_zeroed", api, idx, size, NoValue, take_zeroed(api, backend, data, idx, size))

Replace ==
    /\ pc = "ready"
    /\ \E api \in Apis(backend), idx \in Usize, value \in AllValues :
            Call("replace", api, idx, Len(value), value, replace(api, backend, data, idx, value))

\* get(range) / get_mut(range): a view, or None
Get ==
    /\ pc = "ready"
    /\ \E op \in {"get", "get_mut"}, api \in {"inherent", "trait"}, s \in Bounds, e \in Bounds :
          LET v == get(api, backend, data, Range(s, e))
          IN  /\ last' = [NoCall EXCEPT !.op = op, !.api = api, !.old = data, !.ok = v.some,
                                        !.panic = v.overflow, !.range = Range(s, e), !.view = v]
              /\ pc' = IF v.overflow THEN "panicked" ELSE "called"
    /\ UNCHANGED <<backend, data, other>>

\* as_data_slice() / as_data_slice_mut(): the full view
AsDataSlice ==
    /\ pc = "ready"
    /\ \E op \in {"as_data_slice", "as_data_slice_mut"} :
          LET v == as_data_slice(backend, data)
          IN  /\ last' = [NoCall EXCEPT !.op = op, !.api = "trait", !.old = data, !.ok = v.some,
                                        !.panic = v.overflow, !.range = RangeFull, !.view = v]
              /\ pc' = IF v.overflow THEN "panicked" ELSE "called"
    /\ UNCHANGED <<backend, data, other>>

\* a DataArray<SIZE> is built from the bytes of the current region
TryFrom ==
    /\ pc = "ready"
    /\ \E form \in TryFromForms, SIZE \in 0 .. MaxCap :
          LET r == try_from(form, SIZE, data)
          IN  last' = [NoCall EXCEPT !.op = form, !.api = "inherent", !.size = SIZE,
                                     !.old = data, !.ok = r.ok, !.ret = r.inner,
                                     !.gotten_size = r.gotten_size]
    /\ pc' = "called"
    /\ UNCHANGED <<backend, data, other>>

\* clone_from(data): the bytes of another region of the same type
CloneFrom ==
    /\ pc = "ready"
    /\ \E src \in Sources(backend, data) :
          LET o == clone_from(backend, data, src)
          IN  /\ data' = o.data
              /\ last' = [NoCall EXCEPT !.op = "clone_from", !.api = "trait", !.old = data,
                                        !.value = src, !.back = o.src, !.ok = o.ok,
                                        !.panic = o.panic, !.sizes = o.sizes]
              /\ pc' = IF o.panic THEN "panicked" ELSE "called"
    /\ UNCHANGED <<backend, other>>

\* from_data_array::<SIZE>(array): the current DataArray is handed to a heap
\* constructor
FromDataArray ==
    /\ pc = "ready"
    /\ backend = "array"
    /\ \E impl \in AllocConstructors : \E r \in from_data_array(impl, data) :
          /\ last' = [NoCall EXCEPT !.op = "from_data_array", !.api = impl, !.old = data,
                                    !.size = Len(data), !.ok = r.ok, !.panic = r.panic,
                                    !.ret = r.inner]
          /\ pc' = IF r.panic THEN "panicked" ELSE "called"
    /\ UNCHANGED <<backend, data, other>>

\* the caller formats the IdxError of a failed call: format!("{}", err)
Display ==
    /\ pc = "called"
    /\ last.err # NoError
    /\ last.op # "fmt"
    /\ last' = [NoCall EXCEPT !.op = "fmt", !.api = "trait", !.old = last.old,
                              !.err = last.err, !.msg = IdxError_fmt(last.err)]
    /\ pc' = IF IdxError_fmt(last.err) = Unimplemented THEN "panicked" ELSE "called"
    /\ UNCHANGED <<backend, data, other>>

\* the caller takes the result; the region is ready for the next call
Return ==
    /\ pc = "called"
    /\ pc' = "ready"
    /\ last' = NoCall
    /\ UNCHANGED <<backend, data, other>>

Next ==
    \/ ReadValidity
    \/ WriteValidity
    \/ FullValidity
    \/ ConstOpsValidity
    \/ Write
    \/ WriteUnsized
    \/ WriteUnsizedUnchecked
    \/ WriteZeroes
    \/ WriteOnes
    \/ Read
    \/ ReadMut
    \/ Take
    \/ TakeZeroed
    \/ Replace
    \/ Get
    \/ AsDataSlice
    \/ TryFrom
    \/ CloneFrom
    \/ FromDataArray
    \/ Display
    \/ Return

Spec == Init /\ [][Next]_vars

TypeOK ==
    /\ backend \in Backends
    /\ Len(data) <= MaxCap
    /\ pc \in {"ready", "called", "panicked", "cloned", "written", "viewing", "view_called"}

(***************************************************************************)
(* The documented scenario "capacity 8, write_zeroes(0, 8) then            *)
(* write_ones(4, 4)", run as a script on every backend and in every form.  *)
(***************************************************************************)
ScenarioInit ==
    /\ backend \in Backends
    /\ data \in [1 .. 8 -> Byte]
    /\ last = NoCall
    /\ pc = "scenario_start"
    /\ other = <<>>

ScenarioZeroes ==
    /\ pc = "scenario_start"
    /\ \E api \in Apis(backend) : \E o \in write_zeroes(api, backend, data, 0, 8) :
          /\ data' = o.data
          /\ last' = [op |-> "write_zeroes", api |-> api, idx |-> 0, size |-> 8,
                      value |-> NoValue, old |-> data, ok |-> o.ok, panic |-> o.panic,
                      err |-> o.err, ret |-> o.ret, back |-> o.back, ptr |-> o.ptr,
                      touched |-> o.touched, range |-> NoRange, view |-> NoView,
                      gotten_size |-> None, sizes |-> NoSizes, msg |-> NoMsg, outer |-> NoView]
    /\ pc' = "scenario_zeroed"
    /\ UNCHANGED <<backend, other>>

ScenarioOnes ==
    /\ pc = "scenario_zeroed"
    /\ \E o \in write_ones(last.api, backend, data, 4, 4) :
          /\ data' = o.data
          /\ last' = [op |-> "write_ones", api |-> last.api, idx |-> 4, size |-> 4,
                      value |-> NoValue, old |-> data, ok |-> o.ok, panic |-> o.panic,
                      err |-> o.err, ret |-> o.ret, back |-> o.back, ptr |-> o.ptr,
                      touched |-> o.touched, range |-> NoRange, view |-> NoView,
                      gotten_size |-> None, sizes |-> NoSizes, msg |-> NoMsg, outer |-> NoView]
    /\ pc' = "scenario_done"
    /\ UNCHANGED <<backend, other>>

ScenarioNext == ScenarioZeroes \/ ScenarioOnes

SpecScenario == ScenarioInit /\ [][ScenarioNext]_vars

(***************************************************************************)
(* A DataBoxed region is cloned, and then either the original or the clone *)
(* is written to.                                                          *)
(***************************************************************************)
CloneInit ==
    /\ backend = "boxed"
    /\ data \in Regions
    /\ last = NoCall
    /\ pc = "ready"
    /\ other = <<>>

Clone ==
    /\ pc = "ready"
    /\ \E form \in CloneForms : \E r \in clone(form, data) :
          /\ last' = [NoCall EXCEPT !.op = "clone", !.api = form, !.old = data,
                                    !.ok = r.ok, !.panic = r.panic, !.ret = r.inner]
          /\ other' = r.inner
          /\ pc' = IF r.panic THEN "panicked" ELSE IF r.ok THEN "cloned" ELSE "called"
    /\ UNCHANGED <<backend, data>>

\* a write to the original after the clone
WriteOriginal ==
    /\ pc = "cloned"
    /\ \E idx \in 0 .. MaxCap, value \in AllValues : \E o \in write("trait", backend, data, idx, value) :
          /\ data' = o.data
          /\ last' = [last EXCEPT !.op = "write_original", !.idx = idx, !.value = value,
                                  !.size = Len(value), !.ok = o.ok]
    /\ pc' = "written"
    /\ UNCHANGED <<backend, other>>

\* a write to the clone
WriteClone ==
    /\ pc = "cloned"
    /\ \E idx \in 0 .. MaxCap, value \in AllValues : \E o \in write("trait", backend, other, idx, value) :
          /\ other' = o.data
          /\ last' = [last EXCEPT !.op = "write_clone", !.idx = idx, !.value = value,
                                  !.size = Len(value), !.ok = o.ok]
    /\ pc' = "written"
    /\ UNCHANGED <<backend, data>>

CloneNext == Clone \/ WriteOriginal \/ WriteClone

SpecClone == CloneInit /\ [][CloneNext]_vars

(***************************************************************************)
(* A mutable view is taken with get_mut; then a view of the view is taken, *)
(* or the region is written through the view.                              *)
(***************************************************************************)
\* the bounds explored: every one that a region of capacity up to MaxCap
\* accepts, and one beyond
ViewBounds ==
    {Unbounded} \cup {Included(i) : i \in 0 .. MaxCap} \cup {Excluded(i) : i \in 0 .. MaxCap}

\* the region is built by filled(size, byte) (zeroed is filled(size, 0))
ViewInit ==
    /\ backend \in Backends
    /\ \E cap \in 0 .. MaxCap, byte \in Byte : data = [i \in 1 .. cap |-> byte]
    /\ last = NoCall
    /\ pc = "ready"
    /\ other = <<>>

GetMut ==
    /\ pc = "ready"
    /\ \E api \in {"inherent", "trait"}, s \in ViewBounds, e \in ViewBounds :
          LET v == get(api, backend, data, Range(s, e))
          IN  /\ last' = [NoCall EXCEPT !.op = "get_mut", !.api = api, !.old = data,
                                        !.ok = v.some, !.panic = v.overflow, !.view = v]
              /\ pc' = IF v.overflow THEN "panicked" ELSE IF v.some THEN "viewing" ELSE "called"
    /\ UNCHANGED <<backend, data, other>>

\* view.get_mut(range): the view is a DataSlice
GetMutNested ==
    /\ pc = "viewing"
    /\ last.op = "get_mut"
    /\ \E s \in ViewBounds, e \in ViewBounds :
          LET w == get("inherent", "slice", view_bytes(data, last.view), Range(s, e))
          IN  /\ last' = [NoCall EXCEPT !.op = "get_mut_nested", !.api = "inherent",
                                        !.old = data, !.ok = w.some, !.panic = w.overflow,
                                        !.range = Range(s, e), !.outer = last.view,
                                        !.view = nested(last.view, w)]
              /\ pc' = IF w.overflow THEN "panicked" ELSE "called"
    /\ UNCHANGED <<backend, data, other>>

\* view.write(..), view.write_zeroes(..), .. : one call through the view
ViewCall ==
    /\ pc = "viewing"
    /\ last.op = "get_mut"
    /\ \E op \in ViewOps, api \in {"inherent", "trait"}, idx \in 0 .. MaxCap, value \in AllValues :
          /\ op = "take_zeroed" => api = "trait"
          /\ \E o \in view_op(data, last.view, op, api, idx, Len(value), value) :
                /\ data' = o.data
                /\ last' = [NoCall EXCEPT !.op = op, !.api = api, !.idx = idx,
                                          !.size = Len(value), !.value = value, !.old = data,
                                          !.ok = o.ok, !.panic = o.panic, !.err = o.err,
                                          !.ret = o.ret, !.back = o.back, !.touched = o.touched,
                                          !.view = last.view]
                /\ pc' = IF o.panic THEN "panicked" ELSE "view_called"
    /\ UNCHANGED <<backend, other>>

ViewNext == GetMut \/ GetMutNested \/ ViewCall

SpecView == ViewInit /\ [][ViewNext]_vars

(***************************************************************************)
(* Properties.                                                             *)
(***************************************************************************)
Cap == Len(last.old)
Returned == pc = "called"

C2_AccessInsideRegion ==
    (Returned /\ last.ok /\
     last.op \in {"read", "read_mut", "write", "write_unsized", "write_zeroes",
                  "write_ones", "take", "take_zeroed", "replace"})
        => /\ last.touched \subseteq 0 .. (Cap - 1)
           /\ last.ptr # NoPtr => span(last.ptr, last.size) \subseteq 0 .. (Cap - 1)

\* C3 (as claimed): after a successful write of v at idx, read at the same
\* idx for the same type succeeds and its pointer addresses bytes equal to v.
C3_WriteReadRoundTrip ==
    (Returned /\ last.op = "write" /\ last.ok)
        => \A r \in read(last.api, backend, data, last.idx, last.size) :
              /\ r.ok
              /\ read_at(data, r.ptr, last.size) = {last.value}

\* C4: a checked write, write_unsized, write_zeroes, write_ones, take_zeroed
\* or replace that fails its bounds check leaves every byte of the region as
\* it was before the call.
C4_FailureHasNoEffect ==
    (Returned /\ ~last.ok /\
     last.op \in {"write", "write_unsized", "write_zeroes", "write_ones",
                  "take_zeroed", "replace"})
        => data = last.old

\* C4 witness: a rejected write_zeroes whose span starts inside the region on
\* a byte that is not zero
C4_Witness ==
    /\ Returned
    /\ last.op = "write_zeroes"
    /\ last.api = "inherent"
    /\ ~last.ok
    /\ last.idx < Cap
    /\ last.size > 0
    /\ last.old[last.idx + 1] # 0

\* C5: a checked write that fails the bounds check returns the value it was
\* given, bit for bit, together with the IdxError, and copies nothing into
\* the region.
C5_FailedWriteReturnsValue ==
    (Returned /\ last.op = "write" /\ ~last.ok)
        => /\ last.back = last.value
           /\ last.err # NoError
           /\ data = last.old

\* C5 witness: a rejected trait write of a two-byte value
C5_Witness ==
    /\ Returned
    /\ last.op = "write"
    /\ last.api = "trait"
    /\ ~last.ok
    /\ last.size = 2
    /\ last.idx < Cap

\* C6 (as claimed): a checked replace that fails the bounds check hands the
\* new value back with the IdxError, in every form of replace.
C6_FailedReplaceReturnsValue ==
    (Returned /\ last.op = "replace" /\ ~last.ok)
        => /\ last.back = last.value
           /\ last.err # NoError

\* C7 (as claimed): a successful replace(idx, v) returns what take(idx)
\* returns on the region before the call and leaves the bytes that take(idx)
\* followed by write(idx, v) leaves, in every form of replace.
C7_ReplaceIsTakeThenWrite ==
    (Returned /\ last.op = "replace" /\ last.ok)
        => /\ \E t \in take(last.api, backend, last.old, last.idx, last.size) :
                t.ok /\ t.ret = last.ret
           /\ \E w \in write(last.api, backend, last.old, last.idx, last.value) :
                w.ok /\ w.data = data

\* C8: a successful write of v at idx sets the bytes at [idx, idx + size) to
\* the bytes of v in order and leaves every other byte unchanged.
C8_WriteFrame ==
    (Returned /\ last.op = "write" /\ last.ok)
        => /\ Len(data) = Cap
           /\ \A o \in 0 .. (Cap - 1) :
                data[o + 1] = IF last.idx <= o /\ o < last.idx + last.size
                              THEN last.value[o - last.idx + 1]
                              ELSE last.old[o + 1]

\* C8 witness: a successful two-byte write at a non-zero offset that changes
\* the region and leaves a byte after the span
C8_Witness ==
    /\ Returned
    /\ last.op = "write"
    /\ last.ok
    /\ last.size = 2
    /\ last.idx > 0
    /\ data # last.old
    /\ last.idx + last.size < Cap

\* C9 (as claimed): a successful take returns the bytes at [idx, idx + size)
\* and leaves the region unchanged, so a second take at the same idx returns
\* the same value.
C9_TakeCopiesWithoutClearing ==
    (Returned /\ last.op = "take" /\ last.ok)
        => /\ data = last.old
           /\ last.ret = [k \in 1 .. last.size |-> last.old[last.idx + k]]
           /\ \A t \in take(last.api, backend, data, last.idx, last.size) :
                t.ok /\ t.ret = last.ret

\* C10 (as claimed): on a region of capacity 8, write_zeroes(0, 8) followed by
\* write_ones(4, 4) leaves the bytes [0,0,0,0,255,255,255,255].
C10_ScenarioBytes ==
    pc = "scenario_done" => data = <<0, 0, 0, 0, 255, 255, 255, 255>>

\* C11 (as claimed): a successful take_zeroed returns the value take returns
\* on the region as it was before the call, and afterwards the bytes at
\* [idx, idx + size) are zero and every other byte is unchanged.
C11_TakeZeroedIsTakeThenZero ==
    (Returned /\ last.op = "take_zeroed" /\ last.ok)
        => /\ \A t \in take(last.api, backend, last.old, last.idx, last.size) :
                t.ok /\ t.ret = last.ret
           /\ Len(data) = Cap
           /\ \A o \in 0 .. (Cap - 1) :
                data[o + 1] = IF last.idx <= o /\ o < last.idx + last.size
                              THEN 0
                              ELSE last.old[o + 1]

\* C12: every IdxError returned by a failed checked operation carries the
\* requested offset as idx, the capacity of the region as data_size and the
\* requested span's size as type_size, in the validity functions and in the
\* checked operations alike.
C12_IdxErrorFields ==
    (Returned /\ ~last.ok /\
     last.op \in {"read_validity", "write_validity", "full_validity", "validity",
                  "read", "read_mut", "write", "write_unsized", "write_zeroes",
                  "write_ones", "take", "take_zeroed", "replace"})
        => last.err = [idx |-> last.idx, data_size |-> Cap, type_size |-> last.size]

\* C12 witness: validity(2, 2) on a region of capacity 4 is rejected, and so
\* is an inherent read of a two-byte value at 2
C12_Witness ==
    /\ Returned
    /\ ~last.ok
    /\ Cap = 4
    /\ last.idx = 2
    /\ last.size = 2
    /\ last.op \in {"read_validity", "read"}
    /\ last.err.data_size = 4

\* C13 (as claimed): every index strictly smaller than size() is valid: a
\* checked one-byte access at any idx < capacity is accepted.
C13_IndicesBelowSizeValid ==
    (Returned /\ last.size = 1 /\ last.idx < Cap /\
     last.op \in {"read_validity", "write_validity", "full_validity",
                  "read", "read_mut", "write", "take"})
        => last.ok

\* C14: on a region of capacity C > 0, get and get_mut resolve the start as
\* Unbounded -> 0, Included(i) -> i if i < C, Excluded(i) -> i + 1 if
\* i + 1 < C, and the end as Unbounded -> C, Included(i) -> i - 1
\* (saturating) if i < C, Excluded(i) -> i if i <= C; any other bound gives
\* no view; the view begins at start and covers [start, end), with length 0
\* when end <= start.
C14_BoundResolution ==
    (last.op \in {"get", "get_mut"} /\ Cap > 0)
        => LET sb == last.range.start
               eb == last.range.end
               sOk == \/ sb.kind = "Unbounded"
                      \/ sb.kind = "Included" /\ sb.i < Cap
                      \/ sb.kind = "Excluded" /\ sb.i + 1 < Cap
               eOk == \/ eb.kind = "Unbounded"
                      \/ eb.kind = "Included" /\ eb.i < Cap
                      \/ eb.kind = "Excluded" /\ eb.i <= Cap
               st == IF sb.kind = "Unbounded" THEN 0
                     ELSE IF sb.kind = "Included" THEN sb.i ELSE sb.i + 1
               en == IF eb.kind = "Unbounded" THEN Cap
                     ELSE IF eb.kind = "Excluded" THEN eb.i
                     ELSE IF eb.i = 0 THEN 0 ELSE eb.i - 1
           IN  IF sOk /\ eOk
               THEN /\ last.view.some
                    /\ last.view.off = st
                    /\ last.view.len = IF en <= st THEN 0 ELSE en - st
               ELSE ~last.view.some

\* C14 witness: get(1 ..= 4) on a region of capacity 5 returns the view of
\* the two bytes [1, 3)
C14_Witness ==
    /\ Returned
    /\ last.op = "get"
    /\ Cap = 5
    /\ last.range = Range(Included(1), Included(4))
    /\ last.view.some
    /\ last.view.off = 1
    /\ last.view.len = 2

\* C15: on every region of capacity C > 0, get(..) and get_mut(..) return a
\* view that starts at offset 0 and has size C, and as_data_slice and
\* as_data_slice_mut return the same full view.
C15_FullRangeIdentity ==
    (/\ Cap > 0
     /\ \/ last.op \in {"get", "get_mut"} /\ last.range = RangeFull
        \/ last.op \in {"as_data_slice", "as_data_slice_mut"})
        => /\ last.view.some
           /\ last.view.off = 0
           /\ last.view.len = Cap

\* C15 witness: get_mut(..) through the trait on a DataArray of capacity 3
C15_Witness ==
    /\ Returned
    /\ backend = "array"
    /\ last.op = "get_mut"
    /\ last.api = "trait"
    /\ last.range = RangeFull
    /\ Cap = 3
    /\ last.view.len = 3

C17_GetNeverPanics ==
    last.op \in {"get", "get_mut"}
        => /\ pc # "panicked"
           /\ ~last.view.overflow
           /\ last.view.some => last.view.off + last.view.len <= Cap

\* C17 witness: get((Excluded(usize::MAX), Excluded(0))) on a non-empty
\* region returns None
C17_Witness ==
    /\ Returned
    /\ last.op = "get"
    /\ last.api = "inherent"
    /\ Cap > 0
    /\ last.range = Range(Excluded(UsizeMax), Excluded(0))
    /\ ~last.view.some

\* C18: building a DataArray<N> from a byte slice or a DataSlice of length M
\* fails with DiferentSizesError { gotten_size: M } when M # N, and when
\* M = N succeeds with a region of size N whose bytes equal the source's.
C18_SizeMismatchReported ==
    last.op \in TryFromForms
        => IF Cap # last.size
           THEN ~last.ok /\ last.gotten_size = Cap
           ELSE /\ last.ok
                /\ Len(last.ret) = last.size
                /\ \A k \in 1 .. last.size : last.ret[k] = last.old[k]

\* C18 witness: DataArray::<4>::try_from_slice on a 5-byte source reports 5
C18_Witness ==
    /\ Returned
    /\ last.op = "try_from_slice"
    /\ last.size = 4
    /\ Cap = 5
    /\ ~last.ok
    /\ last.gotten_size = 5

\* C19: write_unsized and write_unsized_unchecked given a null value pointer
\* panic instead of returning an IdxError, for every idx, and leave the
\* region's bytes as they were; no other call of a checked read, write,
\* take or replace operation panics.
C19_NullPointerPanics ==
    /\ (last.op \in {"write_unsized", "write_unsized_unchecked"} /\ last.value = Null)
          => pc = "panicked" /\ last.panic /\ ~last.ok /\ data = last.old
    /\ (pc = "panicked" /\
        last.op \in {"read", "read_mut", "write", "write_unsized", "write_zeroes",
                     "write_ones", "take", "take_zeroed", "replace"})
          => last.op = "write_unsized" /\ last.value = Null

\* C19 witness: write_unsized with a null pointer at an idx outside a
\* non-empty region panics
C19_Witness ==
    /\ pc = "panicked"
    /\ last.op = "write_unsized"
    /\ last.api = "inherent"
    /\ last.value = Null
    /\ Cap > 0
    /\ last.idx >= Cap
    /\ data = last.old

\* C20: for a sized value v, write_unsized(idx, &v) succeeds or fails exactly
\* when write(idx, v) does, with the same IdxError, and on success leaves the
\* bytes write(idx, v) leaves: v at [idx, idx + size), every other byte
\* unchanged.
C20_WriteUnsizedIsWrite ==
    (Returned /\ last.op = "write_unsized" /\ last.value # Null)
        => /\ \A w \in write(last.api, backend, last.old, last.idx, last.value) :
                w.ok = last.ok /\ w.err = last.err /\ w.data = data
           /\ last.ok =>
                \A o \in 0 .. (Cap - 1) :
                    data[o + 1] = IF last.idx <= o /\ o < last.idx + last.size
                                  THEN last.value[o - last.idx + 1]
                                  ELSE last.old[o + 1]

\* C20 witness: a successful write_unsized of a two-byte value at offset 2
\* that changes the region
C20_Witness ==
    /\ Returned
    /\ last.op = "write_unsized"
    /\ last.ok
    /\ last.idx = 2
    /\ last.size = 2
    /\ data # last.old

\* C21: a successful clone of a DataBoxed region returns a region of the same
\* size holding the same bytes, and the two are independent afterwards: a
\* write to the original leaves the clone as it was returned, and a write to
\* the clone leaves the original as it was.
C21_CloneIsIndependentCopy ==
    /\ pc = "cloned"
          => /\ Len(other) = Len(data)
             /\ other = data
             /\ data = last.old
    /\ (pc = "written" /\ last.op = "write_original") => other = last.old
    /\ (pc = "written" /\ last.op = "write_clone") => data = last.old

\* C21 witness: a clone of a region with the bytes 0 and 255, followed by a
\* successful write that changed the original
C21_Witness ==
    /\ pc = "written"
    /\ last.op = "write_original"
    /\ last.api = "inherent"
    /\ last.ok
    /\ Len(last.old) >= 3
    /\ 0 \in {last.old[i] : i \in 1 .. Len(last.old)}
    /\ 255 \in {last.old[i] : i \in 1 .. Len(last.old)}
    /\ data # last.old

\* C22: the capacity of a region is fixed at construction: no step of any
\* sequence of read, write, write_unsized, write_zeroes, write_ones, take,
\* take_zeroed, replace, get, get_mut and clone_from calls, whether it
\* succeeds, fails or panics, changes size().
C22_SizeFixed ==
    [][Len(data') = Len(data)]_vars

\* C22 witness: a successful clone_from that changed the bytes of a region of
\* capacity 3
C22_Witness ==
    /\ Returned
    /\ last.op = "clone_from"
    /\ last.ok
    /\ Len(data) = 3
    /\ data # last.old

\* C23 (as claimed): from_data_array::<SIZE>(array) of every
\* DataStructureAllocConstructor (DataBoxed and Box<DataSlice>) returns
\* either Ok(region) with region.size() = SIZE and the bytes of the array, or
\* a ConstructorError; it never panics.
C23_FromDataArrayNeverPanics ==
    last.op = "from_data_array"
        => /\ ~last.panic
           /\ last.ok => (Len(last.ret) = last.size /\ last.ret = last.old)

\* C24 (as claimed): whenever the checked form of write, write_zeroes,
\* write_ones, read, take, take_zeroed or replace passes its validity check,
\* it returns the value (or pointer) and leaves the bytes that its unchecked
\* form returns and leaves on the same region and arguments.
C24_CheckedIsUnchecked ==
    (Returned /\ last.ok /\
     last.op \in {"write", "write_zeroes", "write_ones", "read", "take",
                  "take_zeroed", "replace"})
        => \E u \in unchecked(last.op, last.api, backend, last.old, last.idx,
                              last.size, last.value) :
              /\ ~u.panic
              /\ u.data = data
              /\ u.ret = last.ret
              /\ u.ptr = last.ptr

\* C25 (as claimed): for every IdxError a failed validity check returns,
\* Display::fmt writes a diagnostic message and returns; it never reaches
\* its unimplemented!() branch.
C25_DisplayNeverUnimplemented ==
    last.msg # Unimplemented

\* C26 (as claimed): writes through a mutable view alias the parent: when
\* get_mut resolved to parent offset s and length n, a successful write,
\* write_zeroes, write_ones, take_zeroed or replace of k bytes at view offset
\* j changes exactly the parent bytes [s + j, s + j + k), to the bytes
\* written, and no other parent byte; the call's bounds check uses n.
C26_ViewWritesAliasParent ==
    pc = "view_called"
        => LET s == last.view.off
               n == last.view.len
               j == last.idx
               k == last.size
               written == CASE last.op \in {"write", "replace"} -> last.value
                            [] last.op \in {"write_zeroes", "take_zeroed"} -> [i \in 1 .. k |-> 0]
                            [] last.op = "write_ones" -> [i \in 1 .. k |-> 255]
           IN  /\ last.ok <=> j + k < n
               /\ ~last.ok => (last.err.data_size = n /\ data = last.old)
               /\ last.ok =>
                    /\ Len(data) = Cap
                    /\ \A o \in 0 .. (Cap - 1) :
                          data[o + 1] = IF s + j <= o /\ o < s + j + k
                                        THEN written[o - (s + j) + 1]
                                        ELSE last.old[o + 1]

\* C27: every view handed out by get, get_mut, get_const or get_mut_const
\* lies inside the region it was taken from: its offset s and length n
\* satisfy s + n <= capacity for every pair of bounds, a range whose end lies
\* before its start included (the length is then 0), and a view of a view
\* lies inside the outer view and so inside the parent.
C27_ViewsInsideParent ==
    (last.op \in {"get_mut", "get_mut_nested"} /\ last.view.some)
        => /\ 0 <= last.view.off
           /\ 0 <= last.view.len
           /\ last.view.off + last.view.len <= Cap
           /\ last.op = "get_mut_nested"
                => /\ last.outer.off <= last.view.off
                   /\ last.view.off + last.view.len <= last.outer.off + last.outer.len

\* C27 witness: a view of a view that begins after the parent's first byte,
\* taken with a range whose end lies before its start, of length 0
C27_Witness ==
    /\ last.op = "get_mut_nested"
    /\ last.view.some
    /\ last.outer.off > 0
    /\ last.range.start = Included(2)
    /\ last.range.end = Excluded(1)
    /\ last.view.off = last.outer.off + 2
    /\ last.view.len = 0

\* C28: on every region and for every pair of bounds, the provided
\* DataStructureSlice::get (and get_mut) and DataSlice::get_const (and
\* get_mut_const) agree: one gives no view exactly when the other gives none,
\* and otherwise they give views with the same offset and the same length.
C28_TraitGetIsGetConst ==
    last.op \in {"get", "get_mut"}
        => LET t == DataStructureSlice_get(last.old, last.range)
               c == DataSlice_get_const(last.old, last.range.start, last.range.end)
           IN  /\ t.some <=> c.some
               /\ ~t.overflow /\ ~c.overflow
               /\ t.some => (t.off = c.off /\ t.len = c.len)
               /\ last.view.some <=> c.some
               /\ last.view.some => (last.view.off = c.off /\ last.view.len = c.len)

\* C28 witness: a DataArray's provided get_mut with an excluded start and an
\* included end, giving a view of two bytes
C28_Witness ==
    /\ Returned
    /\ backend = "array"
    /\ last.op = "get_mut"
    /\ last.api = "trait"
    /\ last.range.start.kind = "Excluded"
    /\ last.range.end.kind = "Included"
    /\ last.view.some
    /\ last.view.off = 1
    /\ last.view.len = 2

\* C29 (as claimed): for all a <= b with b + 1 <= capacity, get(a..=b) gives
\* the view get(a..b + 1) gives, at offset a and of length b - a + 1; a
\* single index i < capacity gives a one-byte view at offset i.
C29_InclusiveRangeAndIndex ==
    (Returned /\ last.op \in {"get", "get_mut"})
        => /\ \A a \in 0 .. Cap, b \in 0 .. Cap :
                (a <= b /\ b + 1 <= Cap /\ last.range = Idx_RangeInclusive(a, b))
                    => LET x == get(last.api, backend, last.old, Idx_Range(a, b + 1))
                       IN  /\ last.view.some /\ x.some
                           /\ last.view.off = x.off /\ last.view.len = x.len
                           /\ last.view.off = a
                           /\ last.view.len = b - a + 1
           /\ \A i \in 0 .. Cap :
                (i < Cap /\ last.range = Idx_usize(i))
                    => /\ last.view.some
                       /\ last.view.off = i
                       /\ last.view.len = 1

\* C30: clone_from(data) on a region whose size differs from data's returns
\* Err((self.size(), data.size())) and leaves self unchanged; on regions of
\* equal size it returns Ok(()) and afterwards the bytes of self equal the
\* bytes of data; data is unchanged in both cases, and the call never panics.
C30_CloneFrom ==
    last.op = "clone_from"
        => /\ ~last.panic
           /\ last.back = last.value
           /\ Len(last.old) # Len(last.value)
                => /\ ~last.ok
                   /\ last.sizes = <<Len(last.old), Len(last.value)>>
                   /\ data = last.old
           /\ Len(last.old) = Len(last.value)
                => /\ last.ok
                   /\ last.sizes = NoSizes
                   /\ data = last.value

\* C30 witness: clone_from on a DataBoxed of size 3 with a region of size 2,
\* rejected with (3, 2)
C30_Witness ==
    /\ Returned
    /\ backend = "boxed"
    /\ last.op = "clone_from"
    /\ ~last.ok
    /\ Len(last.old) = 3
    /\ Len(last.value) = 2
    /\ last.sizes = <<3, 2>>
====
